---- MODULE Spec2Model ----
(***************************************************************************)
(* A factory contract (HelloNear, contract/src/contract.ts): it stores a   *)
(* compiled contract, and on request creates a sub-account of itself,      *)
(* funds it, deploys the stored code there, calls its init method, and     *)
(* chains a callback that reports the outcome.                             *)
(*                                                                         *)
(* Representation notes.                                                   *)
(*  - Strings that the code inspects character by character (account ids,  *)
(*    short names) are sequences of one-character strings.                 *)
(*  - Byte strings (the stored code, near.input()) are sequences of bytes. *)
(*  - Balances are 128-bit yoctoNEAR amounts; they are written as          *)
(*    units * 10^19 + yocto with |yocto| far below 10^19, so that the      *)
(*    constant NEAR_PER_STORAGE = 10^19 is one unit and comparisons are    *)
(*    exact (see AmountGE).                                                *)
(*  - Gas is counted in units of 10^12 (one TGAS).                         *)
(***************************************************************************)
EXTENDS Integers, Sequences, FiniteSets, TLC

VARIABLES
    currentAccount, \* near.currentAccountId(): the factory's own account id
    code,           \* HelloNear.code: the stored contract
    requests,       \* the provisioning requests that were dispatched, in order
    accounts,       \* the sub-accounts that exist on the platform
    last            \* the outcome of the most recent external call

vars == <<currentAccount, code, requests, accounts, last>>

----------------------------------------------------------------------------
(* Bounds of the model *)

MaxRequests == 2     \* dispatched requests per behaviour
MaxNameLen == 3      \* length of the short names tried by SpecGate
MaxCodeLen == 2      \* length of the byte strings passed to update_stored_contract
MaxUnits == 2        \* attached deposits range over 0..MaxUnits units of 10^19

----------------------------------------------------------------------------
(* Amounts of yoctoNEAR *)

Amount(u, y) == [units |-> u, yocto |-> y]

\* a >= b on bigints; exact because |a.yocto - b.yocto| < 10^19
AmountGE(a, b) ==
    \/ a.units > b.units
    \/ a.units = b.units /\ a.yocto >= b.yocto

AmountGT(a, b) == AmountGE(a, b) /\ a # b

\* a * BigInt(n), for an amount that is a whole number of units
AmountTimes(a, n) == Amount(a.units * n, a.yocto * n)

NEAR_PER_STORAGE == Amount(1, 0)
NO_DEPOSIT == Amount(0, 0)
TGAS == 1

----------------------------------------------------------------------------
(* validateAccountId (near-sdk-js), called on name + "." + currentAccount:  *)
(*   length in 2..64 and                                                   *)
(*   /^(([a-z\d]+[-_])*[a-z\d]+\.)*([a-z\d]+[-_])*[a-z\d]+$/              *)

MIN_ACCOUNT_ID_LEN == 2
MAX_ACCOUNT_ID_LEN == 64

LowerAlnum ==
    {"a", "b", "c", "d", "e", "f", "g", "h", "i", "j", "k", "l", "m",
     "n", "o", "p", "q", "r", "s", "t", "u", "v", "w", "x", "y", "z",
     "0", "1", "2", "3", "4", "5", "6", "7", "8", "9"}

\* ([a-z\d]+[-_])*[a-z\d]+ : runs of [a-z\d] joined by single '-' or '_'
IsAccountIdPart(p) ==
    /\ Len(p) >= 1
    /\ \A i \in 1..Len(p) : p[i] \in LowerAlnum \cup {"-", "_"}
    /\ p[1] \in LowerAlnum
    /\ p[Len(p)] \in LowerAlnum
    /\ \A i \in 1..(Len(p) - 1) : p[i] \in LowerAlnum \/ p[i + 1] \in LowerAlnum

\* the parts of s between its '.' characters
DotCuts(s) == {0, Len(s) + 1} \cup {i \in 1..Len(s) : s[i] = "."}

NextCut(s, c) == CHOOSE d \in DotCuts(s) : d > c /\ \A e \in DotCuts(s) : e > c => d <= e

AccountIdParts(s) ==
    {SubSeq(s, c + 1, NextCut(s, c) - 1) : c \in DotCuts(s) \ {Len(s) + 1}}

\* (part\.)*part
MatchesAccountIdRegex(s) == \A p \in AccountIdParts(s) : IsAccountIdPart(p)

validateAccountId(accountId) ==
    /\ Len(accountId) >= MIN_ACCOUNT_ID_LEN
    /\ Len(accountId) <= MAX_ACCOUNT_ID_LEN
    /\ MatchesAccountIdRegex(accountId)

\* `${name}.${currentAccount}`
Subaccount(name, current) == name \o <<".">> \o current

----------------------------------------------------------------------------
(* The optional public_key argument *)

Undefined == "<undefined>"

\* if (public_key): undefined and "" are falsy
Truthy(public_key) == public_key # Undefined /\ public_key # ""

\* new PublicKey(public_key) throws unless the string is a well-formed key
WellFormedKeys == {"key1"}

PublicKeyThrows(public_key) == public_key \notin WellFormedKeys

----------------------------------------------------------------------------
(* create_factory_subaccount_and_deploy: the synchronous part *)

\* a threshold that counts one byte more than the stored code has
MinimumNeeded_OneByteMore(stored) == AmountTimes(NEAR_PER_STORAGE, Len(stored) + 1)

\* NEAR_PER_STORAGE * BigInt(this.code.length)
MinimumNeeded(stored) == AmountTimes(NEAR_PER_STORAGE, Len(stored))

\* a funding check that compares whole units only
FundingOk_UnitsOnly(attached, minimumNeeded) == attached.units >= minimumNeeded.units

\* assert(attached >= minimumNeeded, ...)
FundingOk(attached, minimumNeeded) == AmountGE(attached, minimumNeeded)

\* a batch that grants the key before it calls init
BatchActions_KeyBeforeInit(attached, stored, beneficiary, public_key) ==
    << [kind |-> "CreateAccount"],
       [kind |-> "Transfer", amount |-> attached],
       [kind |-> "DeployContract", code |-> stored] >>
    \o (IF public_key # "<undefined>" /\ public_key # ""
        THEN << [kind |-> "AddKey", key |-> public_key] >>
        ELSE << >>)
    \o << [kind |-> "FunctionCall", method |-> "init",
           args |-> [beneficiary |-> beneficiary],
           deposit |-> NO_DEPOSIT, gas |-> TGAS * 5] >>

\* a batch that grants a key whether or not one was passed
BatchActions_AlwaysKey(attached, stored, beneficiary, public_key) ==
    << [kind |-> "CreateAccount"],
       [kind |-> "Transfer", amount |-> attached],
       [kind |-> "DeployContract", code |-> stored],
       [kind |-> "FunctionCall", method |-> "init",
        args |-> [beneficiary |-> beneficiary],
        deposit |-> NO_DEPOSIT, gas |-> TGAS * 5],
       [kind |-> "AddKey", key |-> public_key] >>

\* NearPromise.new(subaccount).createAccount().transfer(attached)
\*    .deployContract(this.code).functionCall("init", {beneficiary}, 0, 5 TGAS)
\* and, if (public_key), .addFullAccessKey(new PublicKey(public_key))
BatchActions(attached, stored, beneficiary, public_key) ==
    << [kind |-> "CreateAccount"],
       [kind |-> "Transfer", amount |-> attached],
       [kind |-> "DeployContract", code |-> stored],
       [kind |-> "FunctionCall", method |-> "init",
        args |-> [beneficiary |-> beneficiary],
        deposit |-> NO_DEPOSIT, gas |-> TGAS * 5] >>
    \o (IF Truthy(public_key)
        THEN << [kind |-> "AddKey", key |-> public_key] >>
        ELSE << >>)

\* callbackArgs = { account: subaccount, user: predecessor, attached }
CallbackArgs(subaccount, user, attached) ==
    [account |-> subaccount, user |-> user, attached |-> attached]

\* a callback chained on the new sub-account instead of the factory
CallbackCall_OnSubaccount(current, cbArgs) ==
    [receiver |-> cbArgs.account,
     method |-> "create_factory_subaccount_and_deploy_callback",
     args |-> cbArgs, deposit |-> NO_DEPOSIT, gas |-> TGAS * 5]

\* NearPromise.new(currentAccount).functionCall(
\*    "create_factory_subaccount_and_deploy_callback", callbackArgs, 0, 5 TGAS)
CALLBACK_METHOD == "create_factory_subaccount_and_deploy_callback"

CallbackCall(current, cbArgs) ==
    [receiver |-> current,
     method |-> CALLBACK_METHOD,
     args |-> cbArgs, deposit |-> NO_DEPOSIT, gas |-> TGAS * 5]

NoCallback == [faulted |-> FALSE, value |-> FALSE, log |-> << >>, transfers |-> << >>]
NoFinal == [status |-> "Pending", value |-> FALSE]

\* What the method hands to the platform: the batch on the sub-account, then
\* the callback on the factory
NewRequest(current, stored, user, name, beneficiary, public_key, attached) ==
    LET subaccount == Subaccount(name, current)
        cbArgs == CallbackArgs(subaccount, user, attached)
    IN [name |-> name, user |-> user, attached |-> attached,
        beneficiary |-> beneficiary, public_key |-> public_key,
        stored |-> stored,
        receiver |-> subaccount,
        actions |-> BatchActions(attached, stored, beneficiary, public_key),
        then |-> CallbackCall(current, cbArgs),
        pc |-> "Dispatched",
        trace |-> << >>,
        batchOk |-> FALSE,
        ledger |-> << [from |-> user, to |-> current, amount |-> attached,
                       by |-> "deposit"] >>,
        callbacks |-> 0,
        cb |-> NoCallback,
        final |-> NoFinal]

\* The outcome of the synchronous part: "Dispatched" or the failed assertion
ProvisionOutcome(current, stored, name, public_key, attached) ==
    IF ~validateAccountId(Subaccount(name, current))
    THEN [status |-> "abort", err |-> "Invalid subaccount", required |-> NO_DEPOSIT]
    ELSE IF ~FundingOk(attached, MinimumNeeded(stored))
    THEN [status |-> "abort", err |-> "Attach at least",
          required |-> MinimumNeeded(stored)]
    ELSE IF Truthy(public_key) /\ PublicKeyThrows(public_key)
    THEN [status |-> "abort", err |-> "Invalid public key", required |-> NO_DEPOSIT]
    ELSE [status |-> "ok", err |-> "", required |-> NO_DEPOSIT]

----------------------------------------------------------------------------
(* The platform: execution of a dispatched batch on the sub-account.  The   *)
(* actions of a batch run in order inside one receipt; the first one that   *)
(* fails stops the batch and everything it did is rolled back.              *)

NoChild(id) ==
    [id |-> id, exists |-> FALSE, balance |-> NO_DEPOSIT, hasCode |-> FALSE,
     code |-> << >>, initArgs |-> << >>, keys |-> {}]

\* The platform's rule for the CreateAccount step of a batch: the account
\* that issues it creates only direct sub-accounts of itself, label "."
\* parent with no '.' inside label.  (Creating an account next to itself, as
\* account.testnet from factory.testnet, is a call to the registrar of the
\* parent account, which this contract never makes.)
IsDirectChild(id, parent) ==
    /\ Len(id) > Len(parent) + 1
    /\ SubSeq(id, Len(id) - Len(parent) + 1, Len(id)) = parent
    /\ id[Len(id) - Len(parent)] = "."
    /\ \A i \in 1..(Len(id) - Len(parent) - 1) : id[i] # "."

\* Whether one action can be applied to the account as the batch has made it
ActionApplies(action, child, creatable) ==
    CASE action.kind = "CreateAccount"  -> creatable /\ ~child.exists
      [] action.kind = "Transfer"       -> child.exists
      [] action.kind = "DeployContract" -> child.exists
      [] action.kind = "FunctionCall"   -> child.exists /\ child.hasCode
      [] action.kind = "AddKey"         -> child.exists

ApplyAction(action, child) ==
    CASE action.kind = "CreateAccount"  -> [child EXCEPT !.exists = TRUE]
      [] action.kind = "Transfer"       -> [child EXCEPT !.balance = action.amount]
      [] action.kind = "DeployContract" ->
             [child EXCEPT !.hasCode = TRUE, !.code = action.code]
      [] action.kind = "FunctionCall"   ->
             [child EXCEPT !.initArgs = << action.args >>]
      [] action.kind = "AddKey"         -> [child EXCEPT !.keys = @ \cup {action.key}]

\* Runs actions[k..] on child; faultAt is the step at which the platform
\* reports a failure of its own (0: none)
RECURSIVE RunBatch(_, _, _, _, _)
RunBatch(actions, k, child, faultAt, creatable) ==
    IF k > Len(actions)
    THEN [ok |-> TRUE, trace |-> << >>, child |-> child]
    ELSE IF k # faultAt /\ ActionApplies(actions[k], child, creatable)
    THEN LET rest == RunBatch(actions, k + 1, ApplyAction(actions[k], child),
                              faultAt, creatable)
         IN [ok |-> rest.ok,
             trace |-> << [kind |-> actions[k].kind, ok |-> TRUE] >> \o rest.trace,
             child |-> rest.child]
    ELSE [ok |-> FALSE,
          trace |-> << [kind |-> actions[k].kind, ok |-> FALSE] >>,
          child |-> child]

----------------------------------------------------------------------------
(* create_factory_subaccount_and_deploy_callback *)

\* near.promiseResult(0) throws unless the promise the callback was chained
\* to ended successfully
PromiseResultThrows(promiseOk) == ~promiseOk

\* a callback that does not notice the failed promise
CallbackBody_AlwaysTrue(args, promiseOk) ==
    [faulted |-> FALSE, value |-> TRUE,
     log |-> << "Correctly created and deployed to", args.account >>,
     transfers |-> << >>]

\* a callback that sends the deposit back to the user when the batch failed
CallbackBody_Refunds(args, promiseOk) ==
    IF promiseOk
    THEN [faulted |-> FALSE, value |-> TRUE,
          log |-> << "Correctly created and deployed to", args.account >>,
          transfers |-> << >>]
    ELSE [faulted |-> FALSE, value |-> FALSE,
          log |-> << "Error creating", args.account, "returning", args.attached,
                     "to", args.user >>,
          transfers |-> << [from |-> << >>, to |-> args.user,
                            amount |-> args.attached, by |-> "callback"] >>]

\* a callback that lets the failure of near.promiseResult(0) escape
CallbackBody_Rethrows(args, promiseOk) ==
    IF promiseOk
    THEN [faulted |-> FALSE, value |-> TRUE,
          log |-> << "Correctly created and deployed to", args.account >>,
          transfers |-> << >>]
    ELSE [faulted |-> TRUE, value |-> FALSE, log |-> << >>, transfers |-> << >>]

\* try { near.promiseResult(0); log; return true } catch { log; return false }
CallbackBody(args, promiseOk) ==
    IF ~PromiseResultThrows(promiseOk)
    THEN [faulted |-> FALSE, value |-> TRUE,
          log |-> << "Correctly created and deployed to", args.account >>,
          transfers |-> << >>]
    ELSE [faulted |-> FALSE, value |-> FALSE,
          log |-> << "Error creating", args.account, "returning", args.attached,
                     "to", args.user >>,
          transfers |-> << >>]

\* a method that is not marked private
IsPrivateCallAllowed_Anyone(predecessor, current) == TRUE

\* @call({ privateFunction: true })
IsPrivateCallAllowed(predecessor, current) == predecessor = current

\* What the caller of the whole chain is told: the outcome of its last call
FinalOutcome(cb) ==
    IF cb.faulted
    THEN [status |-> "Failure", value |-> FALSE]
    ELSE [status |-> "SuccessValue", value |-> cb.value]

----------------------------------------------------------------------------
(* Inputs *)

FACTORY == << "f", "t" >>
\* a factory account id of 62 characters: one more character is the most a
\* sub-account name can have
LONG_FACTORY == [i \in 1..62 |-> "f"]
USER == << "u" >>
OTHER_USER == << "v" >>
BENEFICIARY == << "b" >>
DEFAULT_CONTRACT == << 0, 97 >>

Bytes == {0, 97}
NameChars == {"a", ".", "A"}

SeqsUpTo(S, n) == UNION {[1..k -> S] : k \in 0..n}

Callers == {currentAccount, USER}
PublicKeys == {Undefined, "", "key1", "bad"}

\* every attached deposit within one yoctoNEAR below a whole number of units
Deposits == {Amount(u, y) : u \in 0..MaxUnits, y \in {-1, 0}} \ {Amount(0, -1)}
\* every raw input of at most MaxCodeLen bytes, the empty one included
Inputs == SeqsUpTo(Bytes, MaxCodeLen)
\* every short name of at most MaxNameLen characters, the empty one included
ShortNames == SeqsUpTo(NameChars, MaxNameLen)

NoCall ==
    [op |-> "none", caller |-> << >>, name |-> << >>, public_key |-> Undefined,
     attached |-> NO_DEPOSIT, input |-> << >>, status |-> "ok", err |-> "",
     required |-> NO_DEPOSIT, value |-> << >>, req |-> 0, log |-> << >>]

----------------------------------------------------------------------------
(* Actions *)

\* create_factory_subaccount_and_deploy({name, beneficiary, public_key}),
\* called by user with the deposit attached
Provision(user, name, beneficiary, public_key, attached) ==
    /\ LET out == ProvisionOutcome(currentAccount, code, name, public_key, attached)
           call == [NoCall EXCEPT !.op = "provision", !.caller = user,
                                  !.name = name, !.public_key = public_key,
                                  !.attached = attached, !.status = out.status,
                                  !.err = out.err, !.required = out.required]
       IN IF out.status = "ok"
          THEN /\ Len(requests) < MaxRequests
               /\ requests' = Append(requests,
                      NewRequest(currentAccount, code, user, name, beneficiary,
                                 public_key, attached))
               /\ last' = [call EXCEPT !.req = Len(requests) + 1]
          ELSE /\ requests' = requests
               /\ last' = call
    /\ UNCHANGED <<currentAccount, code, accounts>>

\* a platform that keeps what the steps before a failed one did
ExecuteBatch_NoRollback(i, faultAt) ==
    /\ requests[i].pc = "Dispatched"
    /\ LET r == requests[i]
           creatable == /\ IsDirectChild(r.receiver, currentAccount)
                        /\ \A a \in accounts : a.id # r.receiver
           run == RunBatch(r.actions, 1, NoChild(r.receiver), faultAt, creatable)
           moved == IF run.ok
                    THEN [from |-> currentAccount, to |-> r.receiver,
                          amount |-> run.child.balance, by |-> "batch"]
                    ELSE [from |-> currentAccount, to |-> currentAccount,
                          amount |-> r.attached, by |-> "refund"]
       IN /\ requests' = [requests EXCEPT ![i] =
                 [r EXCEPT !.pc = "Settled", !.trace = run.trace,
                           !.batchOk = run.ok, !.ledger = Append(@, moved)]]
          /\ accounts' = IF run.child.exists THEN accounts \cup {run.child}
                         ELSE accounts
    /\ UNCHANGED <<currentAccount, code, last>>

\* The platform executes the batch of request i
ExecuteBatch(i, faultAt) ==
    /\ requests[i].pc = "Dispatched"
    /\ LET r == requests[i]
           creatable == /\ IsDirectChild(r.receiver, currentAccount)
                        /\ \A a \in accounts : a.id # r.receiver
           run == RunBatch(r.actions, 1, NoChild(r.receiver), faultAt, creatable)
           moved == IF run.ok
                    THEN [from |-> currentAccount, to |-> r.receiver,
                          amount |-> run.child.balance, by |-> "batch"]
                    ELSE [from |-> currentAccount, to |-> currentAccount,
                          amount |-> r.attached, by |-> "refund"]
       IN /\ requests' = [requests EXCEPT ![i] =
                 [r EXCEPT !.pc = "Settled", !.trace = run.trace,
                           !.batchOk = run.ok, !.ledger = Append(@, moved)]]
          /\ accounts' = IF run.ok THEN accounts \cup {run.child} ELSE accounts
    /\ UNCHANGED <<currentAccount, code, last>>

\* a callback that dispatches the batch again when it failed
RunCallback_Retries(i) ==
    /\ requests[i].pc = "Settled"
    /\ LET r == requests[i]
           reaches == /\ r.then.receiver = currentAccount
                      /\ r.then.method = CALLBACK_METHOD
                      /\ IsPrivateCallAllowed(currentAccount, r.then.receiver)
                      /\ ~AmountGT(r.then.deposit, NO_DEPOSIT)
           cb == IF reaches
                 THEN CallbackBody(r.then.args, r.batchOk)
                 ELSE [NoCallback EXCEPT !.faulted = TRUE]
       IN requests' = [requests EXCEPT ![i] =
              IF reaches /\ ~r.batchOk
              THEN [r EXCEPT !.pc = "Dispatched"]
              ELSE [r EXCEPT !.pc = "Done",
                             !.callbacks = IF reaches THEN @ + 1 ELSE @,
                             !.cb = cb,
                             !.ledger = @ \o cb.transfers,
                             !.final = FinalOutcome(cb)]]
    /\ UNCHANGED <<currentAccount, code, accounts, last>>

\* a callback that takes its arguments from a slot of the contract that the
\* latest request overwrote
RunCallback_SharedSlot(i) ==
    /\ requests[i].pc = "Settled"
    /\ LET r == requests[i]
           reaches == /\ r.then.receiver = currentAccount
                      /\ r.then.method = CALLBACK_METHOD
                      /\ IsPrivateCallAllowed(currentAccount, r.then.receiver)
                      /\ ~AmountGT(r.then.deposit, NO_DEPOSIT)
           cb == IF reaches
                 THEN CallbackBody(requests[Len(requests)].then.args, r.batchOk)
                 ELSE [NoCallback EXCEPT !.faulted = TRUE]
       IN requests' = [requests EXCEPT ![i] =
              [r EXCEPT !.pc = "Done",
                        !.callbacks = IF reaches THEN @ + 1 ELSE @,
                        !.cb = cb,
                        !.ledger = @ \o cb.transfers,
                        !.final = FinalOutcome(cb)]]
    /\ UNCHANGED <<currentAccount, code, accounts, last>>

\* The platform makes the call that was chained to the batch of request i,
\* once that batch has settled, with the factory as its predecessor.  The
\* call reaches the callback when it names it on the factory's own account
\* and carries no deposit (the method is private and not payable).
RunCallback(i) ==
    /\ requests[i].pc = "Settled"
    /\ LET r == requests[i]
           reaches == /\ r.then.receiver = currentAccount
                      /\ r.then.method = CALLBACK_METHOD
                      /\ IsPrivateCallAllowed(currentAccount, r.then.receiver)
                      /\ ~AmountGT(r.then.deposit, NO_DEPOSIT)
           cb == IF reaches
                 THEN CallbackBody(r.then.args, r.batchOk)
                 ELSE [NoCallback EXCEPT !.faulted = TRUE]
       IN requests' = [requests EXCEPT ![i] =
              [r EXCEPT !.pc = "Done",
                        !.callbacks = IF reaches THEN @ + 1 ELSE @,
                        !.cb = cb,
                        !.ledger = @ \o cb.transfers,
                        !.final = FinalOutcome(cb)]]
    /\ UNCHANGED <<currentAccount, code, accounts, last>>

\* The promise result a call of the callback finds at index 0: none when the
\* call was not chained to a promise
PromiseResults == {"None", "Successful", "Failed"}

\* a callback that anyone may call
DirectCallbackOutcome_Public(caller, current, deposit, args, result) ==
    IF AmountGT(deposit, NO_DEPOSIT)
    THEN [status |-> "abort", err |-> "Function is not payable", value |-> << >>,
          log |-> << >>]
    ELSE IF result = "None"
    THEN [status |-> "abort", err |-> "No promise result", value |-> << >>,
          log |-> << >>]
    ELSE [status |-> "ok", err |-> "",
          value |-> << CallbackBody(args, result = "Successful").value >>,
          log |-> CallbackBody(args, result = "Successful").log]

\* create_factory_subaccount_and_deploy_callback called directly: the private
\* check of the decorator, its refusal of a deposit (the method is not
\* payable), then the body; near.promiseResult(0) without a promise result is
\* an error of the host that the catch does not see
DirectCallbackOutcome(caller, current, deposit, args, result) ==
    IF ~IsPrivateCallAllowed(caller, current)
    THEN [status |-> "abort", err |-> "Function is private", value |-> << >>,
          log |-> << >>]
    ELSE IF AmountGT(deposit, NO_DEPOSIT)
    THEN [status |-> "abort", err |-> "Function is not payable", value |-> << >>,
          log |-> << >>]
    ELSE IF result = "None"
    THEN [status |-> "abort", err |-> "No promise result", value |-> << >>,
          log |-> << >>]
    ELSE [status |-> "ok", err |-> "",
          value |-> << CallbackBody(args, result = "Successful").value >>,
          log |-> CallbackBody(args, result = "Successful").log]

\* create_factory_subaccount_and_deploy_callback({account, user, attached}),
\* called by caller with the deposit attached, outside the chain of any request
create_factory_subaccount_and_deploy_callback(caller, deposit, args, result) ==
    /\ LET out == DirectCallbackOutcome(caller, currentAccount, deposit, args, result)
       IN last' = [NoCall EXCEPT !.op = "callback", !.caller = caller,
                                 !.name = args.account,
                                 !.attached = deposit,
                                 !.input = << result >>,
                                 !.status = out.status, !.err = out.err,
                                 !.value = out.value, !.log = out.log]
    /\ UNCHANGED <<currentAccount, code, requests, accounts>>

\* an update without the assertion on its input
UpdateOutcome_NoInputCheck(caller, current, deposit, input) ==
    IF caller # current
    THEN [status |-> "abort", err |-> "Function is private"]
    ELSE IF deposit # NO_DEPOSIT
    THEN [status |-> "abort", err |-> "Function is not payable"]
    ELSE [status |-> "ok", err |-> ""]

\* update_stored_contract(), called by caller with input as the raw call input
UpdateOutcome(caller, current, deposit, input) ==
    IF ~IsPrivateCallAllowed(caller, current)
    THEN [status |-> "abort", err |-> "Function is private"]
    ELSE IF AmountGT(deposit, NO_DEPOSIT)
    THEN [status |-> "abort", err |-> "Function is not payable"]
    ELSE IF input = << >>
    THEN [status |-> "abort", err |-> "Error: No input"]
    ELSE [status |-> "ok", err |-> ""]

\* an update that appends to the stored code instead of replacing it
NewCode_Append(stored, input) == stored \o input

\* an update that writes the input over the first bytes of the stored code and
\* keeps the rest of the old value
NewCode_Overlay(stored, input) ==
    input \o SubSeq(stored, Len(input) + 1, Len(stored))

\* this.code = input
NewCode(stored, input) == input

\* an update seen by the batches that were dispatched but have not run yet, as
\* if they held a reference to this.code instead of its bytes
update_stored_contract_Aliased(caller, deposit, input) ==
    /\ LET out == UpdateOutcome(caller, currentAccount, deposit, input)
       IN /\ code' = IF out.status = "ok" THEN NewCode(code, input) ELSE code
          /\ requests' =
                [i \in 1..Len(requests) |->
                    IF out.status = "ok" /\ requests[i].pc = "Dispatched"
                    THEN [requests[i] EXCEPT !.actions[3].code = NewCode(code, input)]
                    ELSE requests[i]]
          /\ last' = [NoCall EXCEPT !.op = "update_stored_contract",
                                    !.caller = caller, !.attached = deposit,
                                    !.input = input, !.status = out.status,
                                    !.err = out.err]
    /\ UNCHANGED <<currentAccount, accounts>>

update_stored_contract(caller, deposit, input) ==
    /\ LET out == UpdateOutcome(caller, currentAccount, deposit, input)
       IN /\ code' = IF out.status = "ok" THEN NewCode(code, input) ELSE code
          /\ last' = [NoCall EXCEPT !.op = "update_stored_contract",
                                    !.caller = caller, !.attached = deposit,
                                    !.input = input, !.status = out.status,
                                    !.err = out.err]
    /\ UNCHANGED <<currentAccount, requests, accounts>>

\* a get_code that hands the stored code out and falls back to the default
get_code_Resets(caller) ==
    /\ last' = [NoCall EXCEPT !.op = "get_code", !.caller = caller, !.value = code]
    /\ code' = DEFAULT_CONTRACT
    /\ UNCHANGED <<currentAccount, requests, accounts>>

\* get_code(), a view
get_code(caller) ==
    /\ last' = [NoCall EXCEPT !.op = "get_code", !.caller = caller, !.value = code]
    /\ UNCHANGED <<currentAccount, code, requests, accounts>>

\* The funding computation of create_factory_subaccount_and_deploy on its
\* own: minimumNeeded for a stored code and the assertion on the deposit
CheckFunding(stored, attached) ==
    /\ LET minimumNeeded == MinimumNeeded(stored)
       IN last' = [NoCall EXCEPT !.op = "funding", !.input = stored,
                                 !.attached = attached,
                                 !.required = minimumNeeded,
                                 !.status = IF FundingOk(attached, minimumNeeded)
                                            THEN "ok" ELSE "abort",
                                 !.err = IF FundingOk(attached, minimumNeeded)
                                         THEN "" ELSE "Attach at least"]
    /\ UNCHANGED <<currentAccount, code, requests, accounts>>

----------------------------------------------------------------------------
(* Specifications *)

InitWith(factory) ==
    /\ currentAccount = factory
    /\ code = DEFAULT_CONTRACT
    /\ requests = << >>
    /\ accounts = {}
    /\ last = NoCall

Init == InitWith(FACTORY)

\* The provisioning protocol: requests by USER, the platform's steps, and
\* replacements of the stored code in between
ProtocolNames == {<< "a" >>, << "a", ".", "a" >>, << >>}
ProtocolKeys == {Undefined, "key1"}
ProtocolDeposits == {Amount(2, 0)}
ProtocolInputs == {<< 97 >>}
FaultPoints == {0, 3}

Next ==
    \/ \E name \in ProtocolNames, public_key \in ProtocolKeys,
          attached \in ProtocolDeposits :
          Provision(USER, name, BENEFICIARY, public_key, attached)
    \/ \E i \in 1..Len(requests), faultAt \in FaultPoints : ExecuteBatch(i, faultAt)
    \/ \E i \in 1..Len(requests) : RunCallback(i)
    \/ \E input \in ProtocolInputs :
          update_stored_contract(currentAccount, NO_DEPOSIT, input)
    \/ get_code(USER)

Spec == Init /\ [][Next]_vars

\* The synchronous gate: after any replacements of the stored code, one
\* request over every short name, key and deposit, under a short and a
\* longest-possible factory account id
InitGate == InitWith(FACTORY) \/ InitWith(LONG_FACTORY)

NextGate ==
    /\ last.op # "provision"
    /\ \/ \E name \in ShortNames, public_key \in PublicKeys, attached \in Deposits :
             Provision(USER, name, BENEFICIARY, public_key, attached)
       \/ \E input \in Inputs :
             update_stored_contract(currentAccount, NO_DEPOSIT, input)

SpecGate == InitGate /\ [][NextGate]_vars

\* The payload store alone: every caller, deposit and raw input
NextStore ==
    \/ \E caller \in Callers, deposit \in {NO_DEPOSIT, Amount(0, 1)},
          input \in Inputs : update_stored_contract(caller, deposit, input)
    \/ \E caller \in Callers : get_code(caller)

SpecStore == Init /\ [][NextStore]_vars

\* The funding threshold: replacements of the stored code, one request with
\* every deposit, and the funding computation applied to every byte string of
\* at most MaxCodeLen bytes (the empty one included) and every deposit
FundingName == << "a" >>

NextFunding ==
    /\ last.op # "provision"
    /\ \/ \E input \in Inputs :
             update_stored_contract(currentAccount, NO_DEPOSIT, input)
       \/ \E attached \in Deposits :
             Provision(USER, FundingName, BENEFICIARY, Undefined, attached)
       \/ \E stored \in Inputs, attached \in Deposits : CheckFunding(stored, attached)

SpecFunding == Init /\ [][NextFunding]_vars

\* Requests in flight together: two users with different names and deposits,
\* batches that succeed or fail, callbacks in any order, and direct calls of
\* the callback from outside any chain
FlightCalls ==
    { [user |-> USER, name |-> << "a" >>, attached |-> Amount(2, 0)],
      [user |-> OTHER_USER, name |-> << "b" >>, attached |-> Amount(2, 1)] }

ForgedArgs == CallbackArgs(Subaccount(<< "a" >>, FACTORY), USER, Amount(2, 0))

NextFlight ==
    \/ \E c \in FlightCalls :
          Provision(c.user, c.name, BENEFICIARY, Undefined, c.attached)
    \/ \E i \in 1..Len(requests), faultAt \in FaultPoints : ExecuteBatch(i, faultAt)
    \/ \E i \in 1..Len(requests) : RunCallback(i)
    \/ \E caller \in Callers, deposit \in {NO_DEPOSIT, Amount(0, 1)},
          result \in PromiseResults :
          create_factory_subaccount_and_deploy_callback(caller, deposit, ForgedArgs,
                                                        result)

SpecFlight == Init /\ [][NextFlight]_vars

\* The life of a request, with a platform that is fair to every request: it
\* eventually executes a batch that was dispatched and eventually makes the
\* call chained to a batch that has settled
LiveCalls ==
    { [name |-> << "a" >>, public_key |-> Undefined, attached |-> Amount(2, 0)],
      [name |-> << >>, public_key |-> Undefined, attached |-> Amount(1, 0)],
      [name |-> << "a" >>, public_key |-> "bad", attached |-> Amount(1, 0)],
      [name |-> << "a" >>, public_key |-> "bad", attached |-> Amount(2, 0)] }

NextLive ==
    \/ \E c \in LiveCalls :
          Provision(USER, c.name, BENEFICIARY, c.public_key, c.attached)
    \/ \E i \in 1..Len(requests), faultAt \in FaultPoints : ExecuteBatch(i, faultAt)
    \/ \E i \in 1..Len(requests) : RunCallback(i)

PlatformFairness ==
    \A i \in 1..MaxRequests :
        /\ WF_vars(i <= Len(requests) /\ \E faultAt \in FaultPoints : ExecuteBatch(i, faultAt))
        /\ WF_vars(i <= Len(requests) /\ RunCallback(i))

SpecLive == Init /\ [][NextLive]_vars /\ PlatformFairness

\* The store shared by replacements, readers and requests in flight: updates
\* by every caller with an empty and two different non-empty inputs, readers,
\* and requests that are dispatched, executed and reconciled in between
SharedInputs == {<< >>, << 97 >>, << 0 >>}
SharedName == << "a" >>
SharedDeposit == Amount(2, 0)

NextShared ==
    \/ \E caller \in Callers, input \in SharedInputs :
          update_stored_contract(caller, NO_DEPOSIT, input)
    \/ get_code(USER)
    \/ Provision(USER, SharedName, BENEFICIARY, Undefined, SharedDeposit)
    \/ \E i \in 1..Len(requests) : ExecuteBatch(i, 0)
    \/ \E i \in 1..Len(requests) : RunCallback(i)

SpecShared == Init /\ [][NextShared]_vars

----------------------------------------------------------------------------
(* Properties *)

\* A step that is an external call: it leaves its outcome in last
IsCall(op) == last' # last /\ last'.op = op

\* a < n * 10^19
BelowUnits(a, n) == a.units < n \/ (a.units = n /\ a.yocto < 0)

\* C1: a request whose attached deposit is below NEAR_PER_STORAGE times the
\* length of the stored code aborts synchronously: no batch is dispatched, no
\* callback is scheduled, no account is created and the stored code is
\* unchanged; with a valid name the error reports the required amount.
C1_InsufficientFundsAborts ==
    [][ (IsCall("provision") /\ BelowUnits(last'.attached, Len(code)))
        => /\ last'.status = "abort"
           /\ last'.req = 0
           /\ last'.err \in {"Invalid subaccount", "Attach at least"}
           /\ last'.err = "Attach at least" => last'.required = Amount(Len(code), 0)
           /\ requests' = requests
           /\ accounts' = accounts
           /\ code' = code ]_vars

C1_Witness ==
    /\ last.op = "provision"
    /\ last.status = "abort"
    /\ last.err = "Attach at least"
    /\ last.attached = Amount(Len(code), -1)
    /\ last.required = Amount(Len(code), 0)
    /\ requests = << >>

\* The short names the identity grammar excludes: empty, containing the
\* separator, making the account id longer than the maximum, or containing a
\* character outside [a-z0-9_-]
ViolatesNameGrammar(name, current) ==
    \/ name = << >>
    \/ \E i \in 1..Len(name) : name[i] = "."
    \/ Len(name) + 1 + Len(current) > MAX_ACCOUNT_ID_LEN
    \/ \E i \in 1..Len(name) : name[i] \notin LowerAlnum \cup {"-", "_", "."}

\* C2: a request whose short name violates the identity grammar aborts with
\* the invalid-name error, before the funding check and before any batch is
\* dispatched, whatever the attached deposit.
C2_InvalidShortNameAborts ==
    [][ (IsCall("provision") /\ ViolatesNameGrammar(last'.name, currentAccount))
        => /\ last'.status = "abort"
           /\ last'.err = "Invalid subaccount"
           /\ requests' = requests ]_vars

\* C3: every dispatched batch targets name + "." + factory and holds, in this
\* order, create, transfer of the whole attached deposit, deploy of the
\* stored code, the init call with the caller's beneficiary (no deposit,
\* 5 TGAS), and only then the optional key grant; the steps that ran are a
\* prefix of the batch and each ran after its predecessor succeeded.
C3_BatchOrder ==
    \A i \in 1..Len(requests) :
        LET r == requests[i] IN
        /\ r.receiver = r.name \o << "." >> \o currentAccount
        /\ Len(r.actions) \in {4, 5}
        /\ r.actions[1] = [kind |-> "CreateAccount"]
        /\ r.actions[2] = [kind |-> "Transfer", amount |-> r.attached]
        /\ r.actions[3] = [kind |-> "DeployContract", code |-> r.stored]
        /\ r.actions[4] = [kind |-> "FunctionCall", method |-> "init",
                           args |-> [beneficiary |-> r.beneficiary],
                           deposit |-> Amount(0, 0), gas |-> 5]
        /\ Len(r.actions) = 5 => r.actions[5] = [kind |-> "AddKey", key |-> r.public_key]
        /\ Len(r.trace) <= Len(r.actions)
        /\ \A k \in 1..Len(r.trace) :
              /\ r.trace[k].kind = r.actions[k].kind
              /\ k < Len(r.trace) => r.trace[k].ok
        /\ r.batchOk => Len(r.trace) = Len(r.actions) /\ r.trace[Len(r.trace)].ok

C3_Witness ==
    \E i \in 1..Len(requests) :
        /\ requests[i].pc = "Settled"
        /\ requests[i].batchOk
        /\ requests[i].receiver = << "a", ".", "f", "t" >>
        /\ [k \in 1..Len(requests[i].trace) |-> requests[i].trace[k].kind]
             = << "CreateAccount", "Transfer", "DeployContract", "FunctionCall", "AddKey" >>

\* C4: the callback of a dispatched request is invoked exactly once, and only
\* after the request's batch has settled, whether the batch succeeded or
\* failed: a request becomes Done by the one step that invokes its callback,
\* that step starts from a settled batch, and a Done request never changes
\* again; a request that aborted synchronously schedules and gets no callback.
C4_CallbackExactlyOnce ==
    [][ /\ \A i \in 1..Len(requests) :
             LET r == requests[i]
                 q == requests'[i]
             IN /\ q.callbacks # r.callbacks
                   => /\ r.pc = "Settled" /\ r.trace # << >>
                      /\ r.callbacks = 0 /\ q.callbacks = 1
                      /\ q.pc = "Done"
                /\ (q.pc = "Done" /\ r.pc # "Done") => q.callbacks = r.callbacks + 1
                /\ r.pc = "Done" => q = r
                /\ q.pc # r.pc
                   => <<r.pc, q.pc>> \in {<<"Dispatched", "Settled">>, <<"Settled", "Done">>}
        /\ (IsCall("provision") /\ last'.status = "abort") => requests' = requests
        /\ Len(requests') # Len(requests)
           => /\ IsCall("provision") /\ last'.status = "ok"
              /\ Len(requests') = Len(requests) + 1
              /\ requests'[Len(requests')].callbacks = 0
              /\ requests'[Len(requests')].pc = "Dispatched"
              /\ requests'[Len(requests')].then.method = CALLBACK_METHOD ]_vars

C4_Witness ==
    /\ Len(requests) = 2
    /\ requests[1].pc = "Done" /\ requests[1].batchOk /\ requests[1].callbacks = 1
    /\ requests[2].pc = "Done" /\ ~requests[2].batchOk /\ requests[2].callbacks = 1
    /\ last.op = "provision" /\ last.status = "abort"

\* C5: the callback returns true and logs the success record naming the
\* sub-account exactly when the batch it was chained to succeeded; otherwise
\* it returns false and logs the failure record naming the sub-account, the
\* attached deposit and the user.  It never faults.
C5_CallbackReportsBatch ==
    \A i \in 1..Len(requests) :
        LET r == requests[i] IN
        r.pc = "Done"
        => /\ ~r.cb.faulted
           /\ r.cb.value = r.batchOk
           /\ r.batchOk
              => r.cb.log = << "Correctly created and deployed to", r.receiver >>
           /\ ~r.batchOk
              => r.cb.log = << "Error creating", r.receiver, "returning", r.attached,
                               "to", r.user >>

C5_Witness ==
    /\ Len(requests) = 2
    /\ requests[1].pc = "Done" /\ ~requests[1].batchOk /\ requests[1].cb.value = FALSE
    /\ requests[1].trace[Len(requests[1].trace)].kind = "DeployContract"
    /\ requests[2].pc = "Done" /\ requests[2].batchOk /\ requests[2].cb.value = TRUE

\* C6: when the batch failed, the callback makes no transfer: once the request
\* is reconciled (and ever after) the deposit went from the user to the
\* factory and nothing was paid back to the user.
C6_NoRefundOnFailure ==
    \A i \in 1..Len(requests) :
        LET r == requests[i] IN
        (r.pc = "Done" /\ ~r.batchOk)
        => /\ r.cb.transfers = << >>
           /\ r.cb.log = << "Error creating", r.receiver, "returning", r.attached,
                            "to", r.user >>
           /\ r.ledger[1] = [from |-> r.user, to |-> currentAccount,
                             amount |-> r.attached, by |-> "deposit"]
           /\ \A k \in 1..Len(r.ledger) : r.ledger[k].to # r.user

C6_Witness ==
    \E i \in 1..Len(requests) :
        /\ requests[i].pc = "Done"
        /\ ~requests[i].batchOk
        /\ requests[i].user = USER
        /\ requests[i].attached = Amount(2, 0)
        /\ Len(requests[i].ledger) = 2
        /\ last.op = "get_code"

\* C7 as claimed: when a step of the batch fails, the chained operation is
\* reported to the caller as failed.
C7_FailedBatchReportedAsFailure ==
    \A i \in 1..Len(requests) :
        (requests[i].pc = "Done" /\ ~requests[i].batchOk)
        => requests[i].final.status = "Failure"

\* C7, amended: when a step of the batch fails, the chained operation resolves
\* to the callback's outcome, which is the successful return of the value
\* false.
C7_FailedBatchResolvesToFalse ==
    \A i \in 1..Len(requests) :
        (requests[i].pc = "Done" /\ ~requests[i].batchOk)
        => requests[i].final = [status |-> "SuccessValue", value |-> FALSE]

C7_Witness ==
    \E i \in 1..Len(requests) :
        /\ requests[i].pc = "Done"
        /\ ~requests[i].batchOk
        /\ requests[i].trace = << [kind |-> "CreateAccount", ok |-> FALSE] >>
        /\ requests[i].final.status = "SuccessValue"

\* C8: update_stored_contract called by anyone but the factory itself is
\* rejected, and the stored code after the call is the stored code before it.
C8_UpdateByOthersRejected ==
    [][ (IsCall("update_stored_contract") /\ last'.caller # currentAccount)
        => /\ last'.status = "abort"
           /\ last'.err = "Function is private"
           /\ code' = code
           /\ UNCHANGED <<requests, accounts>> ]_vars

C8_Witness ==
    /\ last.op = "update_stored_contract"
    /\ last.caller = USER
    /\ last.attached = NO_DEPOSIT
    /\ last.input = << 97 >>
    /\ last.status = "abort"
    /\ code = << 0, 0 >>

\* C9: update_stored_contract called by the factory itself with an empty
\* input is rejected and leaves the stored code unchanged; the error is the
\* empty-input one (when no deposit is attached, which the method would
\* refuse first).
C9_EmptyUpdateRejected ==
    [][ (IsCall("update_stored_contract") /\ last'.caller = currentAccount
         /\ last'.input = << >>)
        => /\ last'.status = "abort"
           /\ last'.attached = NO_DEPOSIT => last'.err = "Error: No input"
           /\ code' = code
           /\ UNCHANGED <<requests, accounts>> ]_vars

C9_Witness ==
    /\ last.op = "update_stored_contract"
    /\ last.caller = currentAccount
    /\ last.attached = NO_DEPOSIT
    /\ last.input = << >>
    /\ last.err = "Error: No input"
    /\ code = << 97, 0 >>

\* C10: get_code called right after a successful update_stored_contract(b)
\* returns exactly b, and get_code changes nothing of the contract's state.
C10_RoundTrip ==
    [][ /\ (last.op = "update_stored_contract" /\ last.status = "ok"
            /\ IsCall("get_code"))
           => /\ last.input # << >>
              /\ last'.value = last.input
        /\ IsCall("get_code")
           => /\ last'.status = "ok"
              /\ UNCHANGED <<currentAccount, code, requests, accounts>> ]_vars

C10_Witness ==
    /\ last.op = "get_code"
    /\ last.value = << 97, 0 >>
    /\ code = << 97, 0 >>

\* C11: a successful update_stored_contract(b) leaves the store holding
\* exactly b, so two in sequence with b1 then b2 leave exactly b2; whatever
\* is interleaved, the store only ever goes from its value to the whole input
\* of a successful update, a reader gets the whole current value, and a
\* dispatched batch deploys the whole current value: never a mix of two.
C11_AtomicReplace ==
    [][ /\ (IsCall("update_stored_contract") /\ last'.status = "ok")
           => code' = last'.input
        /\ (last.op = "update_stored_contract" /\ last.status = "ok"
            /\ IsCall("update_stored_contract") /\ last'.status = "ok")
           => code = last.input /\ code' = last'.input
        /\ code' # code
           => IsCall("update_stored_contract") /\ code' = last'.input
        /\ IsCall("get_code") => last'.value = code /\ code' = code
        /\ Len(requests') > Len(requests)
           => /\ requests'[Len(requests')].actions[3].code = code
              /\ code' = code ]_vars

C11_Witness ==
    /\ \E i \in 1..Len(requests) :
          /\ requests[i].actions[3].code = << 97 >>
          /\ requests[i].pc = "Dispatched"
    /\ code = << 0 >>
    /\ last.op = "get_code"
    /\ last.value = << 0 >>

\* C12: a dispatched batch holds the step that grants a full access key if
\* and only if the request passed a public key (a non-empty public_key
\* argument), and then it is the last step and grants that key; without a key
\* the batch is exactly create, transfer, deploy, init.
C12_KeyStepIffKeySupplied ==
    [][ (IsCall("provision") /\ last'.status = "ok")
        => LET r == requests'[last'.req]
               kinds == [k \in 1..Len(r.actions) |-> r.actions[k].kind]
               supplied == last'.public_key \notin {"<undefined>", ""}
           IN /\ Len(requests') = Len(requests) + 1
              /\ last'.req = Len(requests')
              /\ (\E k \in 1..Len(kinds) : kinds[k] = "AddKey") <=> supplied
              /\ ~supplied
                 => kinds = << "CreateAccount", "Transfer", "DeployContract",
                               "FunctionCall" >>
              /\ supplied
                 => /\ kinds = << "CreateAccount", "Transfer", "DeployContract",
                                  "FunctionCall", "AddKey" >>
                    /\ r.actions[5].key = last'.public_key ]_vars

C12_Witness ==
    /\ last.op = "provision"
    /\ last.status = "ok"
    /\ last.public_key = "key1"
    /\ Len(requests) = 1
    /\ Len(requests[1].actions) = 5
    /\ requests[1].actions[5] = [kind |-> "AddKey", key |-> "key1"]

\* C13: the threshold of the funding check is NEAR_PER_STORAGE (10^19) times
\* the length L of the code stored when the call is made; it does not
\* decrease when L grows; a deposit equal to the threshold passes; for L = 0
\* the threshold is 0 and every deposit passes.
C13_FundingThreshold ==
    [][ /\ (IsCall("provision") /\ last'.err # "Invalid subaccount")
           => /\ last'.err = "Attach at least"
                 <=> BelowUnits(last'.attached, Len(code))
              /\ last'.err = "Attach at least"
                 => last'.required = [units |-> Len(code), yocto |-> 0]
              /\ last'.attached = [units |-> Len(code), yocto |-> 0]
                 => last'.err # "Attach at least"
        /\ IsCall("funding")
           => /\ last'.required = [units |-> Len(last'.input), yocto |-> 0]
              /\ last'.status = "abort"
                 <=> BelowUnits(last'.attached, Len(last'.input))
              /\ last'.attached = last'.required => last'.status = "ok"
              /\ Len(last'.input) = 0
                 => last'.required = [units |-> 0, yocto |-> 0] /\ last'.status = "ok"
        /\ (last.op = "funding" /\ IsCall("funding")
            /\ Len(last.input) <= Len(last'.input))
           => /\ last'.required.units >= last.required.units
              /\ last'.required.yocto = 0 /\ last.required.yocto = 0 ]_vars

C13_Witness ==
    /\ code = << 97 >>
    /\ last.op = "provision"
    /\ last.attached = [units |-> 1, yocto |-> 0]
    /\ last.status = "ok"
    /\ Len(requests) = 1
    /\ requests[1].actions[2].amount = [units |-> 1, yocto |-> 0]

\* C14: once a batch has settled, either all of its steps were applied (the
\* sub-account exists, holds the attached deposit, has the stored code
\* deployed, was initialised with the beneficiary and has the key if one was
\* passed) or none was: every account that exists is the complete result of a
\* batch that succeeded, and a failed batch leaves no account behind.
C14_BatchAtomic ==
    /\ \A a \in accounts :
          /\ a.exists /\ a.hasCode /\ a.initArgs # << >>
          /\ \E i \in 1..Len(requests) :
                LET r == requests[i] IN
                /\ r.pc \in {"Settled", "Done"} /\ r.batchOk
                /\ a.id = r.receiver
                /\ a.balance = r.attached
                /\ a.code = r.stored
                /\ a.initArgs = << [beneficiary |-> r.beneficiary] >>
                /\ a.keys = IF r.public_key \in {"<undefined>", ""} THEN {}
                            ELSE {r.public_key}
    /\ \A i \in 1..Len(requests) :
          LET r == requests[i] IN
          /\ (r.pc \in {"Settled", "Done"} /\ r.batchOk)
             => \E a \in accounts : a.id = r.receiver
          /\ (r.pc \in {"Settled", "Done"} /\ ~r.batchOk)
             => \A a \in accounts :
                   a.id = r.receiver
                   => \E j \in 1..Len(requests) :
                         j # i /\ requests[j].batchOk /\ requests[j].receiver = a.id

C14_Witness ==
    \E i \in 1..Len(requests) :
        /\ requests[i].pc = "Done"
        /\ ~requests[i].batchOk
        /\ [k \in 1..Len(requests[i].trace) |-> requests[i].trace[k].ok]
             = << TRUE, TRUE, FALSE >>
        /\ \A a \in accounts : a.id # requests[i].receiver

\* C15: what a batch deploys and what its callback is given are the values
\* at dispatch.  The dispatching call puts the code stored at that moment
\* into the batch and the sub-account id, the caller and the attached deposit
\* into the callback's arguments; no later step, a successful update of the
\* stored code included, changes the batch or the chained call; the account a
\* successful batch creates holds that code, and the callback's log names
\* those arguments.
C15_CapturedAtDispatch ==
    [][ /\ Len(requests') > Len(requests)
           => LET q == requests'[Len(requests')] IN
              /\ q.stored = code
              /\ q.actions[3] = [kind |-> "DeployContract", code |-> code]
              /\ q.then.args = [account |-> last'.name \o << "." >> \o currentAccount,
                                user |-> last'.caller,
                                attached |-> last'.attached]
        /\ \A i \in 1..Len(requests) :
              LET r == requests[i]
                  q == requests'[i]
              IN /\ q.actions = r.actions
                 /\ q.then = r.then
                 /\ q.stored = r.stored
                 /\ (r.pc = "Dispatched" /\ q.pc = "Settled" /\ q.batchOk)
                    => \E a \in accounts' \ accounts :
                          a.id = r.receiver /\ a.code = r.stored
                 /\ (r.pc = "Settled" /\ q.pc = "Done")
                    => q.cb.log \in
                         { << "Correctly created and deployed to", r.then.args.account >>,
                           << "Error creating", r.then.args.account, "returning",
                              r.then.args.attached, "to", r.then.args.user >> } ]_vars

C15_Witness ==
    /\ last.op = "update_stored_contract"
    /\ last.status = "ok"
    /\ code = << 97 >>
    /\ \E i \in 1..Len(requests) :
          /\ requests[i].pc = "Settled"
          /\ requests[i].batchOk
          /\ requests[i].stored = << 0, 97 >>
          /\ \E a \in accounts :
                a.id = requests[i].receiver /\ a.code = << 0, 97 >>
    /\ \E j \in 1..Len(requests) :
          /\ requests[j].pc = "Dispatched"
          /\ requests[j].actions[3].code = << 0, 97 >>

\* C16: with several requests in flight at once, the callback of each request
\* reports the outcome of that request's own batch and names that request's
\* own sub-account, user and attached deposit; two requests that differ in
\* these never show each other's.
C16_NoCrossRequestAliasing ==
    \A i \in 1..Len(requests) :
        LET r == requests[i] IN
        /\ r.then.args = [account |-> r.name \o << "." >> \o currentAccount,
                          user |-> r.user, attached |-> r.attached]
        /\ r.pc = "Done"
           => /\ r.cb.value = r.batchOk
              /\ r.final.value = r.batchOk
              /\ r.cb.log = IF r.batchOk
                            THEN << "Correctly created and deployed to",
                                    r.name \o << "." >> \o currentAccount >>
                            ELSE << "Error creating",
                                    r.name \o << "." >> \o currentAccount,
                                    "returning", r.attached, "to", r.user >>
              /\ \A j \in 1..Len(requests) :
                    (requests[j].pc = "Done" /\ requests[j].name # r.name)
                    => requests[j].cb.log # r.cb.log

C16_Witness ==
    /\ Len(requests) = 2
    /\ requests[1].user = << "u" >> /\ requests[2].user = << "v" >>
    /\ requests[1].pc = "Settled" /\ ~requests[1].batchOk
    /\ requests[2].pc = "Done" /\ requests[2].batchOk
    /\ requests[2].cb.value = TRUE
    /\ requests[2].cb.log[2] = << "b", ".", "f", "t" >>

\* C17: the stored code changes only by a successful update_stored_contract,
\* and then to that call's input: a request (aborted or dispatched), the
\* execution of a batch (succeeded or failed), a callback and get_code leave
\* it as it was, and the factory's account id never changes.
C17_OnlyUpdateChangesCode ==
    [][ /\ code' # code
           => /\ IsCall("update_stored_contract")
              /\ last'.status = "ok"
              /\ code' = last'.input
        /\ IsCall("provision") => code' = code
        /\ IsCall("get_code") => code' = code
        /\ (\E i \in 1..Len(requests) :
               Len(requests') = Len(requests) /\ requests'[i].pc # requests[i].pc)
           => code' = code /\ last' = last
        /\ currentAccount' = currentAccount ]_vars

C17_Witness ==
    /\ code = << 97 >>
    /\ Len(requests) = 2
    /\ requests[1].stored = << 97 >> /\ requests[2].stored = << 97 >>
    /\ requests[1].pc = "Done" /\ requests[1].batchOk
    /\ requests[2].pc = "Done" /\ ~requests[2].batchOk
    /\ last.op = "get_code"
    /\ last.value = << 97 >>

\* C18: every request terminates.  A call either aborts synchronously, at
\* the name check first and otherwise before anything is dispatched, with
\* nothing observable done, or it dispatches; a dispatched request goes
\* Dispatched, Settled (reconciling), Done in this order only, its callback
\* runs once, the callback dispatches nothing further, and with a platform
\* that is fair to dispatched batches and chained calls it eventually is Done.
C18_RequestTerminates ==
    /\ [][ /\ IsCall("provision")
              => /\ last'.status \in {"abort", "ok"}
                 /\ last'.status = "abort"
                    => /\ requests' = requests /\ accounts' = accounts /\ code' = code
                       /\ last'.err \in {"Invalid subaccount", "Attach at least",
                                         "Invalid public key"}
                 /\ last'.name = << >> => last'.err = "Invalid subaccount"
                 /\ (last'.name # << >> /\ BelowUnits(last'.attached, Len(code)))
                    => last'.err = "Attach at least"
                 /\ last'.status = "ok"
                    => /\ Len(requests') = Len(requests) + 1
                       /\ requests'[Len(requests')].pc = "Dispatched"
           /\ \A i \in 1..Len(requests) :
                 LET r == requests[i]
                     q == requests'[i]
                 IN /\ q.pc # r.pc
                       => <<r.pc, q.pc>> \in {<<"Dispatched", "Settled">>,
                                              <<"Settled", "Done">>}
                    /\ (r.pc = "Settled" /\ q.pc = "Done")
                       => /\ q.callbacks = 1 /\ r.callbacks = 0
                          /\ Len(requests') = Len(requests)
                          /\ \A j \in 1..Len(requests) : j # i => requests'[j] = requests[j]
                          /\ accounts' = accounts
                    /\ r.pc = "Done" => q = r ]_vars
    /\ \A i \in 1..MaxRequests :
          (Len(requests) >= i) ~> (Len(requests) >= i /\ requests[i].pc = "Done")

C18_Witness ==
    /\ Len(requests) = 2
    /\ requests[1].pc = "Done" /\ requests[1].callbacks = 1 /\ requests[1].batchOk
    /\ requests[2].pc = "Done" /\ requests[2].callbacks = 1 /\ ~requests[2].batchOk
    /\ last.op = "provision" /\ last.status = "abort"
    /\ last.err = "Attach at least"

\* C19: the stored code is never empty: it starts as the non-empty default
\* and stays non-empty through every update_stored_contract (by the factory
\* or by anyone else, with an empty or a non-empty input), request, batch
\* and callback.
C19_StoreNeverEmpty ==
    /\ Len(code) >= 1
    /\ \A i \in 1..Len(requests) : Len(requests[i].actions[3].code) >= 1
    /\ \A a \in accounts : Len(a.code) >= 1

C19_Witness ==
    /\ last.op = "update_stored_contract"
    /\ last.caller = currentAccount
    /\ last.input = << >>
    /\ last.status = "abort"
    /\ code = << 0 >>
    /\ \E i \in 1..Len(requests) : requests[i].pc = "Done" /\ requests[i].batchOk

\* C20: create_factory_subaccount_and_deploy_callback called by anyone but
\* the factory itself is rejected as private: it returns no boolean, writes
\* no success or failure record and changes nothing, whatever promise result
\* the caller arranged and whether or not a deposit is attached (a call with
\* a deposit is rejected even from the factory: the method is not payable);
\* the recorded outcome of a request only ever comes
\* from the call the factory chained to that request's batch.
C20_CallbackPrivate ==
    [][ /\ (IsCall("callback") /\ last'.caller # currentAccount)
           => /\ last'.status = "abort"
              /\ last'.err = "Function is private"
              /\ last'.value = << >>
              /\ last'.log = << >>
              /\ UNCHANGED <<code, requests, accounts>>
        /\ (IsCall("callback") /\ last'.attached # [units |-> 0, yocto |-> 0])
           => last'.status = "abort" /\ last'.value = << >> /\ last'.log = << >>
        /\ IsCall("callback") => UNCHANGED <<code, requests, accounts>>
        /\ \A i \in 1..Len(requests) :
              (requests'[i].cb # requests[i].cb \/ requests'[i].final # requests[i].final)
              => /\ last' = last
                 /\ requests[i].pc = "Settled"
                 /\ requests[i].then.receiver = currentAccount ]_vars

C20_Witness ==
    /\ last.op = "callback"
    /\ last.caller = << "u" >>
    /\ last.input = << "Successful" >>
    /\ last.status = "abort"
    /\ \E i \in 1..Len(requests) :
          /\ requests[i].then.args.account = last.name
          /\ requests[i].pc = "Settled"
          /\ ~requests[i].batchOk

====
